---- MODULE Spec2Model ----
(***************************************************************************)
(* Model of the torrent stream of the eztv client: Client.TorrentStream    *)
(* and Client.fullStreamResync, together with the part of the EZTV listing *)
(* that Client.GetTorrents reads.  One stream is modelled: the goroutine   *)
(* started by TorrentStream, the consumer of the channel it returns, the   *)
(* context that governs it and the upstream listing.                       *)
(*                                                                         *)
(* The goroutine moves from one blocking point to the next in one action:  *)
(* a send on the unbuffered channel torrentsCh, a call of GetTorrents and  *)
(* the select of the poll loop are the places where it can be suspended.   *)
(***************************************************************************)
EXTENDS Integers, Sequences, FiniteSets, TLC

\* ------------------------------------------------------------------------
\* Program constants and bounds of the model
\* ------------------------------------------------------------------------

\* const MaxEZTVAPILimit: the page size of a resync fetch.
MaxEZTVAPILimit == 100

\* Bounds: how many listing changes, spontaneous fetch failures and poll
\* ticks one behaviour of the model may contain.
MaxAdds == 2
MaxRemoves == 2
MaxFailures == 2
MaxTicks == 2

\* The sizes of the upstream listing when the stream is opened.
TorrentCounts == {0, 1, 2, 102}

\* StreamOptions.LastTorrentID values the stream is opened with.
StartCursors == {0, 1, 101}

\* StreamOptions.ImdbID values the stream is opened with, as sequences of
\* characters: "", "tt" and "tt7".
ImdbIDs == { <<>>, <<"t", "t">>, <<"t", "t", "7">> }

\* ------------------------------------------------------------------------
\* Values
\* ------------------------------------------------------------------------

\* The error values a StreamTorrent can carry.
NoErr == "nil"
ErrMissingImdbID == "missing imdbID"
ErrFetch == "fetch error"

\* StreamTorrent{Torrent: t, Err: nil}; a Torrent is represented by its ID.
ItemEvent(id) == [id |-> id, err |-> NoErr]

\* StreamTorrent{Err: e}: the embedded Torrent is the zero value.
ErrEvent(e) == [id |-> 0, err |-> e]

\* No value is being sent on torrentsCh.
NoEvent == [id |-> 0, err |-> "none"]

\* No GetTorrents call is in flight.
NoReq == [page |-> 0, limit |-> 0, dead |-> FALSE]

\* The variables page and err of the goroutine when they hold nothing.
NoPage == [count |-> 0, torrents |-> <<>>]

Min(a, b) == IF a < b THEN a ELSE b

\* ------------------------------------------------------------------------
\* Pure functions
\* ------------------------------------------------------------------------

\* strings.TrimPrefix(s, "tt")
TrimPrefix(s) ==
    IF Len(s) >= 2 /\ s[1] = "t" /\ s[2] = "t" THEN SubSeq(s, 3, Len(s)) ELSE s

\* slices.Reverse
Reverse(s) == [k \in 1..Len(s) |-> s[Len(s) + 1 - k]]

\* The number of pages rounded down instead of up.
PageCount_Floor(count) == count \div MaxEZTVAPILimit

\* int(math.Ceil(float64(count) / MaxEZTVAPILimit)): for the counts of the
\* model the float64 quotient is exact enough that this is the integer
\* ceiling of count / MaxEZTVAPILimit.
PageCount(count) == (count + MaxEZTVAPILimit - 1) \div MaxEZTVAPILimit

\* The Page the API returns for (page, limit) over the listing up, which is
\* newest first: TorrentsCount and the torrents of that window.
PageOf(up, pg, lim) ==
    [count |-> Len(up),
     torrents |-> SubSeq(up, (pg - 1) * lim + 1, Min(pg * lim, Len(up)))]

\* The listing of n torrents with IDs 1..n, newest (highest ID) first.
Listing(n) == [k \in 1..n |-> n + 1 - k]

VARIABLES
    streamOptions,   \* the StreamOptions the stream was opened with
    upstream,        \* the listing of the show at the API, newest first
    nextID,          \* the ID the API gives to the next torrent it adds
    pc,              \* the position of the goroutine of TorrentStream
    cancelled,       \* ctx is done
    woken,           \* which case resolved the select the goroutine is parked in
    closed,          \* torrentsCh is closed
    consumerStopped, \* the consumer has stopped receiving from torrentsCh
    sending,         \* the value of the send the goroutine is blocked in
    req,             \* the GetTorrents call in flight
    page,            \* the variable page of the goroutine
    err,             \* the variable err of the goroutine
    lastTorrentID,   \* lastTorrentID of TorrentStream
    resyncLast,      \* lastTorrentID of fullStreamResync
    i,               \* the loop variable i of fullStreamResync
    idx,             \* the position of the range loop in page.Torrents
    events,          \* the values received from torrentsCh, in order
    fetchLog,        \* the (page, limit) of every GetTorrents call, in order
    failures,        \* number of fetches that failed under a live context
    ticks,           \* number of poll timers that fired
    adds,            \* number of torrents added upstream
    removes,         \* number of torrents removed upstream
    resyncRemoved    \* a torrent was removed while fullStreamResync was running

vars == <<streamOptions, upstream, nextID, pc, cancelled, woken, closed,
          consumerStopped, sending, req, page, err, lastTorrentID, resyncLast,
          i, idx, events, fetchLog, failures, ticks, adds, removes,
          resyncRemoved>>

envVars == <<upstream, nextID, adds, removes, resyncRemoved>>
ctxVars == <<cancelled, woken>>
resyncVars == <<resyncLast, i, idx>>

\* The state when TorrentStream has made torrentsCh and started the
\* goroutine, over a listing of one of the sizes in counts.
InitOver(counts) ==
    /\ streamOptions \in [ImdbID : ImdbIDs, LastTorrentID : StartCursors]
    /\ \E n \in counts : upstream = Listing(n) /\ nextID = n + 1
    /\ pc = "start"
    /\ cancelled = FALSE
    /\ woken = "none"
    /\ closed = FALSE
    /\ consumerStopped = FALSE
    /\ sending = NoEvent
    /\ req = NoReq
    /\ page = NoPage
    /\ err = NoErr
    /\ lastTorrentID = 0
    /\ resyncLast = 0
    /\ i = 0
    /\ idx = 0
    /\ events = <<>>
    /\ fetchLog = <<>>
    /\ failures = 0
    /\ ticks = 0
    /\ adds = 0
    /\ removes = 0
    /\ resyncRemoved = FALSE

Init == InitOver(TorrentCounts)

\* ------------------------------------------------------------------------
\* Client.GetTorrents, as seen by the goroutine
\* ------------------------------------------------------------------------

\* The goroutine calls GetTorrents(ctx, URLOptions{Page: pg, Limit: lim}).
\* A request made with a context that is already done cannot succeed.
Issue(pg, lim) ==
    /\ req' = [page |-> pg, limit |-> lim, dead |-> cancelled]
    /\ fetchLog' = Append(fetchLog, <<pg, lim>>)

\* The call in flight returns: the decoded Page of the listing as it is now,
\* or an error (the transport failed, or ctx was cancelled).
FetchReturns ==
    /\ req # NoReq
    /\ req' = NoReq
    /\ \/ /\ ~req.dead
          /\ page' = PageOf(upstream, req.page, req.limit)
          /\ err' = NoErr
          /\ failures' = failures
       \/ /\ req.dead \/ cancelled \/ failures < MaxFailures
          /\ page' = NoPage
          /\ err' = ErrFetch
          /\ failures' = IF req.dead \/ cancelled THEN failures ELSE failures + 1

\* A channel with a buffer: the send completes although nobody receives.
Delivered_Buffered ==
    /\ sending # NoEvent
    /\ events' = Append(events, sending)

\* The consumer receives the value of the blocked send: torrentsCh has no
\* buffer, so a send completes only together with a receive.
Delivered ==
    /\ ~consumerStopped
    /\ sending # NoEvent
    /\ events' = Append(events, sending)

\* The goroutine returns: the deferred close(torrentsCh) runs.
Returns ==
    /\ closed' = TRUE
    /\ pc' = "done"

\* ------------------------------------------------------------------------
\* TorrentStream: the goroutine up to the poll loop
\* ------------------------------------------------------------------------

\* A check of the ImdbID that never finds it missing.
MissingImdbID_Never(opts) == FALSE

\* imdbID := strings.TrimPrefix(streamOptions.ImdbID, "tt"); imdbID == ""
MissingImdbID(opts) == TrimPrefix(opts.ImdbID) = <<>>

\* The test "lastTorrentID == 0" left out: every stream with an ImdbID
\* starts with a full re-sync.
Start_AlwaysResync ==
    /\ pc = "start"
    /\ lastTorrentID' = streamOptions.LastTorrentID
    /\ IF MissingImdbID(streamOptions)
       THEN /\ sending' = ErrEvent(ErrMissingImdbID)
            /\ pc' = "send_missing"
            /\ UNCHANGED <<req, fetchLog>>
       ELSE /\ Issue(1, 1)
            /\ pc' = "probe_fetch"
            /\ UNCHANGED sending
    /\ UNCHANGED <<streamOptions, envVars, ctxVars, closed, consumerStopped,
                   page, err, resyncVars, events, failures, ticks>>

\* The goroutine starts: the ImdbID check, and the choice between a full
\* re-sync and the poll loop.
Start ==
    /\ pc = "start"
    /\ lastTorrentID' = streamOptions.LastTorrentID
    /\ IF MissingImdbID(streamOptions)
       THEN /\ sending' = ErrEvent(ErrMissingImdbID)
            /\ pc' = "send_missing"
            /\ UNCHANGED <<req, fetchLog>>
       ELSE IF streamOptions.LastTorrentID = 0
       THEN /\ Issue(1, 1)
            /\ pc' = "probe_fetch"
            /\ UNCHANGED sending
       ELSE /\ pc' = "select"
            /\ UNCHANGED <<sending, req, fetchLog>>
    /\ UNCHANGED <<streamOptions, envVars, ctxVars, closed, consumerStopped,
                   page, err, resyncVars, events, failures, ticks>>

\* torrentsCh <- StreamTorrent{Err: ErrMissingImdbID}; return
SendMissing ==
    /\ pc = "send_missing"
    /\ Delivered
    /\ sending' = NoEvent
    /\ Returns
    /\ UNCHANGED <<streamOptions, envVars, ctxVars, consumerStopped, req, page,
                   err, lastTorrentID, resyncVars, fetchLog, failures, ticks>>

\* ------------------------------------------------------------------------
\* fullStreamResync
\* ------------------------------------------------------------------------

\* The first GetTorrents call (page 1, limit 1) returns.
ProbeReturn ==
    /\ pc = "probe_fetch"
    /\ FetchReturns
    /\ pc' = "probe_check"
    /\ UNCHANGED <<streamOptions, envVars, ctxVars, closed, consumerStopped,
                   sending, lastTorrentID, resyncVars, events, fetchLog, ticks>>

\* The check of a zero count left out and the number of pages computed as
\* count / MaxEZTVAPILimit + 1: a listing without torrents is re-synced too.
ProbeCheck_ResyncOnZero ==
    /\ pc = "probe_check"
    /\ IF err # NoErr
       THEN /\ sending' = ErrEvent(err)
            /\ pc' = "send_probe_err"
            /\ UNCHANGED <<lastTorrentID, resyncVars>>
       ELSE /\ resyncLast' = 0
            /\ i' = page.count \div MaxEZTVAPILimit + 1
            /\ pc' = "resync_loop"
            /\ UNCHANGED <<sending, lastTorrentID, idx>>
    /\ page' = NoPage
    /\ err' = NoErr
    /\ UNCHANGED <<streamOptions, envVars, ctxVars, closed, consumerStopped,
                   req, events, fetchLog, failures, ticks>>

\* The checks after the first call: an error is sent, a count of zero ends
\* the re-sync, otherwise the number of pages is computed.
ProbeCheck ==
    /\ pc = "probe_check"
    /\ IF err # NoErr
       THEN /\ sending' = ErrEvent(err)
            /\ pc' = "send_probe_err"
            /\ UNCHANGED <<lastTorrentID, resyncVars>>
       ELSE IF page.count = 0
       THEN /\ lastTorrentID' = 0
            /\ pc' = "select"
            /\ UNCHANGED <<sending, resyncVars>>
       ELSE /\ resyncLast' = 0
            /\ i' = PageCount(page.count)
            /\ pc' = "resync_loop"
            /\ UNCHANGED <<sending, lastTorrentID, idx>>
    /\ page' = NoPage
    /\ err' = NoErr
    /\ UNCHANGED <<streamOptions, envVars, ctxVars, closed, consumerStopped,
                   req, events, fetchLog, failures, ticks>>

\* The failed first call answered by calling GetTorrents again: the
\* re-sync is retried instead of abandoned.
SendProbeErr_Retry ==
    /\ pc = "send_probe_err"
    /\ Delivered
    /\ sending' = NoEvent
    /\ Issue(1, 1)
    /\ pc' = "probe_fetch"
    /\ UNCHANGED <<streamOptions, envVars, ctxVars, closed, consumerStopped,
                   page, err, lastTorrentID, resyncVars, failures, ticks>>

\* torrentsCh <- StreamTorrent{Err: err}; return 0
SendProbeErr ==
    /\ pc = "send_probe_err"
    /\ Delivered
    /\ sending' = NoEvent
    /\ lastTorrentID' = 0
    /\ pc' = "select"
    /\ UNCHANGED <<streamOptions, envVars, ctxVars, closed, consumerStopped,
                   req, page, err, resyncVars, fetchLog, failures, ticks>>

\* The head of the loop "for i := pages; i > 0; i--": the next page is
\* requested, or the re-sync returns lastTorrentID to TorrentStream.
ResyncLoop ==
    /\ pc = "resync_loop"
    /\ IF i > 0
       THEN /\ Issue(i, MaxEZTVAPILimit)
            /\ pc' = "resync_fetch"
            /\ UNCHANGED lastTorrentID
       ELSE /\ lastTorrentID' = resyncLast
            /\ pc' = "select"
            /\ UNCHANGED <<req, fetchLog>>
    /\ UNCHANGED <<streamOptions, envVars, ctxVars, closed, consumerStopped,
                   sending, page, err, resyncVars, events, failures, ticks>>

\* The GetTorrents call of the loop returns.
ResyncReturn ==
    /\ pc = "resync_fetch"
    /\ FetchReturns
    /\ pc' = "resync_check"
    /\ UNCHANGED <<streamOptions, envVars, ctxVars, closed, consumerStopped,
                   sending, lastTorrentID, resyncVars, events, fetchLog, ticks>>

\* After the call: an error is sent; otherwise page.Torrents is reversed and
\* the range loop sends its first torrent.
ResyncCheck ==
    /\ pc = "resync_check"
    /\ IF err # NoErr
       THEN /\ sending' = ErrEvent(err)
            /\ pc' = "send_resync_err"
            /\ page' = NoPage
            /\ UNCHANGED <<i, idx>>
       ELSE IF page.torrents = <<>>
       THEN /\ i' = i - 1
            /\ pc' = "resync_loop"
            /\ page' = NoPage
            /\ UNCHANGED <<sending, idx>>
       ELSE /\ page' = [page EXCEPT !.torrents = Reverse(page.torrents)]
            /\ idx' = 1
            /\ sending' = ItemEvent(Reverse(page.torrents)[1])
            /\ pc' = "send_resync_item"
            /\ UNCHANGED i
    /\ err' = NoErr
    /\ UNCHANGED <<streamOptions, envVars, ctxVars, closed, consumerStopped,
                   req, lastTorrentID, resyncLast, events, fetchLog, failures,
                   ticks>>

\* The failed page fetch answered with "return 0", as after the first
\* call: the cursor established so far is lost.
SendResyncErr_ReturnZero ==
    /\ pc = "send_resync_err"
    /\ Delivered
    /\ sending' = NoEvent
    /\ lastTorrentID' = 0
    /\ pc' = "select"
    /\ UNCHANGED <<streamOptions, envVars, ctxVars, closed, consumerStopped,
                   req, page, err, resyncVars, fetchLog, failures, ticks>>

\* torrentsCh <- StreamTorrent{Err: err}; return lastTorrentID
SendResyncErr ==
    /\ pc = "send_resync_err"
    /\ Delivered
    /\ sending' = NoEvent
    /\ lastTorrentID' = resyncLast
    /\ pc' = "select"
    /\ UNCHANGED <<streamOptions, envVars, ctxVars, closed, consumerStopped,
                   req, page, err, resyncVars, fetchLog, failures, ticks>>

\* torrentsCh <- StreamTorrent{Torrent: torrent}; lastTorrentID = torrent.ID;
\* then the next torrent of the page, or the next page.
SendResyncItem ==
    /\ pc = "send_resync_item"
    /\ Delivered
    /\ resyncLast' = sending.id
    /\ IF idx < Len(page.torrents)
       THEN /\ idx' = idx + 1
            /\ sending' = ItemEvent(page.torrents[idx + 1])
            /\ UNCHANGED <<pc, i, page>>
       ELSE /\ idx' = 0
            /\ sending' = NoEvent
            /\ i' = i - 1
            /\ page' = NoPage
            /\ pc' = "resync_loop"
    /\ UNCHANGED <<streamOptions, envVars, ctxVars, closed, consumerStopped,
                   req, err, lastTorrentID, fetchLog, failures, ticks>>

\* ------------------------------------------------------------------------
\* TorrentStream: the poll loop
\* ------------------------------------------------------------------------

\* A loop that only waits for the timer: ctx.Done() is not among the cases
\* of the select.
Select_IgnoreCtx ==
    /\ pc = "select"
    /\ pc' = "wait"
    /\ UNCHANGED <<streamOptions, envVars, ctxVars, closed, consumerStopped,
                   sending, req, page, err, lastTorrentID, resyncVars, events,
                   fetchLog, failures, ticks>>

\* The goroutine reaches the select.  recheckInterval is positive (a zero
\* RecheckInterval is replaced by StreamRecheckInterval) and time.After has
\* just created the timer, so only ctx.Done() can be ready: the goroutine
\* returns if ctx is done and parks otherwise.
Select ==
    /\ pc = "select"
    /\ IF cancelled
       THEN Returns
       ELSE /\ pc' = "wait"
            /\ UNCHANGED closed
    /\ UNCHANGED <<streamOptions, envVars, ctxVars, consumerStopped, sending,
                   req, page, err, lastTorrentID, resyncVars, events, fetchLog,
                   failures, ticks>>

\* A loop that sleeps for the interval and only then looks at ctx: the
\* cancellation does not stop the fetch of the tick.
WakeDone_SleepThenFetch ==
    /\ pc = "wait"
    /\ woken = "done"
    /\ Issue(1, 1)
    /\ pc' = "poll_fetch"
    /\ UNCHANGED <<streamOptions, envVars, ctxVars, closed, consumerStopped,
                   sending, page, err, lastTorrentID, resyncVars, events,
                   failures, ticks>>

\* case <-ctx.Done(): return
WakeDone ==
    /\ pc = "wait"
    /\ woken = "done"
    /\ Returns
    /\ UNCHANGED <<streamOptions, envVars, ctxVars, consumerStopped, sending,
                   req, page, err, lastTorrentID, resyncVars, events, fetchLog,
                   failures, ticks>>

\* case <-time.After(recheckInterval): GetTorrents(page 1, limit 1) is called.
WakeTimer ==
    /\ pc = "wait"
    /\ woken = "timer"
    /\ woken' = "none"
    /\ Issue(1, 1)
    /\ pc' = "poll_fetch"
    /\ UNCHANGED <<streamOptions, envVars, cancelled, closed, consumerStopped,
                   sending, page, err, lastTorrentID, resyncVars, events,
                   failures, ticks>>

\* The GetTorrents call of the poll tick returns.
PollReturn ==
    /\ pc = "poll_fetch"
    /\ FetchReturns
    /\ pc' = "poll_check"
    /\ UNCHANGED <<streamOptions, envVars, ctxVars, closed, consumerStopped,
                   sending, lastTorrentID, resyncVars, events, fetchLog, ticks>>

\* The comparison with lastTorrentID left out: any newest torrent is new.
IsNew_IgnoreCursor(p, last) == Len(p.torrents) # 0

\* The comparison with lastTorrentID made with < instead of <=.
IsNew_AllowEqual(p, last) == ~(Len(p.torrents) = 0 \/ p.torrents[1] < last)

\* The newest torrent of the page is new exactly when it exists and its ID
\* is above lastTorrentID.
IsNew(p, last) == ~(Len(p.torrents) = 0 \/ p.torrents[1] <= last)

\* The assignment "lastTorrentID = page.Torrents[0].ID" left out: the newest
\* torrent is sent but the cursor stays where it was.
PollCheck_KeepCursor ==
    /\ pc = "poll_check"
    /\ IF err # NoErr
       THEN /\ sending' = ErrEvent(err)
            /\ pc' = "send_poll_err"
       ELSE IF ~IsNew(page, lastTorrentID)
       THEN /\ pc' = "select"
            /\ UNCHANGED sending
       ELSE /\ sending' = ItemEvent(page.torrents[1])
            /\ pc' = "send_poll_item"
    /\ page' = NoPage
    /\ err' = NoErr
    /\ UNCHANGED <<streamOptions, envVars, ctxVars, closed, consumerStopped,
                   req, lastTorrentID, resyncVars, events, fetchLog, failures,
                   ticks>>

\* After the call: an error is sent; a page without a new torrent ends the
\* tick; otherwise lastTorrentID moves to the newest torrent, which is sent.
PollCheck ==
    /\ pc = "poll_check"
    /\ IF err # NoErr
       THEN /\ sending' = ErrEvent(err)
            /\ pc' = "send_poll_err"
            /\ UNCHANGED lastTorrentID
       ELSE IF ~IsNew(page, lastTorrentID)
       THEN /\ pc' = "select"
            /\ UNCHANGED <<sending, lastTorrentID>>
       ELSE /\ lastTorrentID' = page.torrents[1]
            /\ sending' = ItemEvent(page.torrents[1])
            /\ pc' = "send_poll_item"
    /\ page' = NoPage
    /\ err' = NoErr
    /\ UNCHANGED <<streamOptions, envVars, ctxVars, closed, consumerStopped,
                   req, resyncVars, events, fetchLog, failures, ticks>>

\* The error of a poll tick answered by starting over from cursor 0.
SendPollErr_ResetCursor ==
    /\ pc = "send_poll_err"
    /\ Delivered
    /\ sending' = NoEvent
    /\ lastTorrentID' = 0
    /\ pc' = "select"
    /\ UNCHANGED <<streamOptions, envVars, ctxVars, closed, consumerStopped,
                   req, page, err, resyncVars, fetchLog, failures, ticks>>

\* The error of a poll tick treated as fatal: return instead of continue.
SendPollErr_Return ==
    /\ pc = "send_poll_err"
    /\ Delivered
    /\ sending' = NoEvent
    /\ Returns
    /\ UNCHANGED <<streamOptions, envVars, ctxVars, consumerStopped, req, page,
                   err, lastTorrentID, resyncVars, fetchLog, failures, ticks>>

\* torrentsCh <- StreamTorrent{Err: err}; continue
SendPollErr ==
    /\ pc = "send_poll_err"
    /\ Delivered
    /\ sending' = NoEvent
    /\ pc' = "select"
    /\ UNCHANGED <<streamOptions, envVars, ctxVars, closed, consumerStopped,
                   req, page, err, lastTorrentID, resyncVars, fetchLog,
                   failures, ticks>>

\* torrentsCh <- StreamTorrent{Torrent: page.Torrents[0]}
SendPollItem ==
    /\ pc = "send_poll_item"
    /\ Delivered
    /\ sending' = NoEvent
    /\ pc' = "select"
    /\ UNCHANGED <<streamOptions, envVars, ctxVars, closed, consumerStopped,
                   req, page, err, lastTorrentID, resyncVars, fetchLog,
                   failures, ticks>>

\* ------------------------------------------------------------------------
\* The environment: the context, the timer, the consumer and the listing
\* ------------------------------------------------------------------------

\* The caller cancels ctx.  Closing ctx.Done() resolves the select of a
\* goroutine that is parked in it and that the timer has not woken yet.
Cancel ==
    /\ ~cancelled
    /\ pc # "done"
    /\ cancelled' = TRUE
    /\ woken' = IF pc = "wait" /\ woken = "none" THEN "done" ELSE woken
    /\ UNCHANGED <<streamOptions, envVars, pc, closed, consumerStopped, sending,
                   req, page, err, lastTorrentID, resyncVars, events, fetchLog,
                   failures, ticks>>

\* recheckInterval elapses while the goroutine is parked in the select.
TimerFire ==
    /\ pc = "wait"
    /\ woken = "none"
    /\ ticks < MaxTicks
    /\ woken' = "timer"
    /\ ticks' = ticks + 1
    /\ UNCHANGED <<streamOptions, envVars, pc, cancelled, closed,
                   consumerStopped, sending, req, page, err, lastTorrentID,
                   resyncVars, events, fetchLog, failures>>

\* The consumer stops receiving from the channel.
ConsumerStop ==
    /\ ~consumerStopped
    /\ pc # "done"
    /\ consumerStopped' = TRUE
    /\ UNCHANGED <<streamOptions, envVars, ctxVars, pc, closed, sending, req,
                   page, err, lastTorrentID, resyncVars, events, fetchLog,
                   failures, ticks>>

\* The goroutine reads the listing only through the call in flight, so a
\* change of the listing at any other moment shows to it exactly as the same
\* change made while its next call is in flight: the listing changes are
\* taken while a call is in flight.
\* The API lists a new torrent: it gets the next ID and is the newest.
AddTorrent ==
    /\ adds < MaxAdds
    /\ req # NoReq
    /\ upstream' = <<nextID>> \o upstream
    /\ nextID' = nextID + 1
    /\ adds' = adds + 1
    /\ UNCHANGED <<streamOptions, removes, resyncRemoved, ctxVars, pc, closed, consumerStopped,
                   sending, req, page, err, lastTorrentID, resyncVars, events,
                   fetchLog, failures, ticks>>

\* The API withdraws its newest or its oldest torrent of the show.
RemoveTorrent ==
    /\ removes < MaxRemoves
    /\ req # NoReq
    /\ upstream # <<>>
    /\ \E k \in {1, Len(upstream)} :
          upstream' = SubSeq(upstream, 1, k - 1) \o
                      SubSeq(upstream, k + 1, Len(upstream))
    /\ removes' = removes + 1
    /\ resyncRemoved' = (resyncRemoved \/ pc \in {"probe_fetch", "resync_fetch"})
    /\ UNCHANGED <<streamOptions, nextID, adds, ctxVars, pc, closed,
                   consumerStopped, sending, req, page, err, lastTorrentID,
                   resyncVars, events, fetchLog, failures, ticks>>

Next ==
    \/ Start
    \/ SendMissing
    \/ ProbeReturn
    \/ ProbeCheck
    \/ SendProbeErr
    \/ ResyncLoop
    \/ ResyncReturn
    \/ ResyncCheck
    \/ SendResyncErr
    \/ SendResyncItem
    \/ Select
    \/ WakeDone
    \/ WakeTimer
    \/ PollReturn
    \/ PollCheck
    \/ SendPollErr
    \/ SendPollItem
    \/ Cancel
    \/ TimerFire
    \/ ConsumerStop
    \/ AddTorrent
    \/ RemoveTorrent

Spec == Init /\ [][Next]_vars

\* The steps of the goroutine of TorrentStream.
Goroutine ==
    \/ Start
    \/ SendMissing
    \/ ProbeReturn
    \/ ProbeCheck
    \/ SendProbeErr
    \/ ResyncLoop
    \/ ResyncReturn
    \/ ResyncCheck
    \/ SendResyncErr
    \/ SendResyncItem
    \/ Select
    \/ WakeDone
    \/ WakeTimer
    \/ PollReturn
    \/ PollCheck
    \/ SendPollErr
    \/ SendPollItem

\* The scheduler runs the goroutine whenever it can take a step, every call
\* of GetTorrents returns, and a consumer that has not stopped receives.
FairSpec == Init /\ [][Next]_vars /\ WF_vars(Goroutine)

\* The stream over a listing that does not change: the sizes of the listing
\* cover one page, a full page, and two and three pages.
StableCounts == {1, 100, 101, 250}

InitStable ==
    /\ InitOver(StableCounts)
    /\ streamOptions.LastTorrentID = 0
    /\ ~MissingImdbID(streamOptions)

NextStable ==
    \/ Start
    \/ ProbeReturn
    \/ ProbeCheck
    \/ SendProbeErr
    \/ ResyncLoop
    \/ ResyncReturn
    \/ ResyncCheck
    \/ SendResyncErr
    \/ SendResyncItem
    \/ Select
    \/ WakeDone
    \/ WakeTimer
    \/ PollReturn
    \/ PollCheck
    \/ SendPollErr
    \/ SendPollItem
    \/ Cancel
    \/ TimerFire
    \/ ConsumerStop

SpecStable == InitStable /\ [][NextStable]_vars

\* The steps of a stream whose listing does not change.
NextQuiet ==
    \/ Goroutine
    \/ Cancel
    \/ TimerFire
    \/ ConsumerStop

\* Every stream of the model over a listing that does not change, with the
\* scheduling of FairSpec.
FairStableSpec ==
    InitOver(StableCounts) /\ [][NextQuiet]_vars /\ WF_vars(Goroutine)

\* ------------------------------------------------------------------------
\* Properties
\* ------------------------------------------------------------------------

\* The IDs of the torrents received without an error, in order of receipt.
ItemsOf(evs) == SelectSeq(evs, LAMBDA e : e.err = NoErr)

StrictlyIncreasing(evs) ==
    \A k \in 1..(Len(evs) - 1) : evs[k].id < evs[k + 1].id

\* C1 (as claimed): whatever pages the fetcher returns, the IDs of the
\* torrents emitted without an error are strictly increasing in the order of
\* emission.
C1_EmittedStrictlyIncreasing == StrictlyIncreasing(ItemsOf(events))

\* C1 (amended): the IDs of the torrents emitted without an error are
\* strictly increasing in the order of emission as long as no torrent is
\* removed from the listing while the full re-sync is running.
C1_IncreasingUnlessRemovedInResync ==
    ~resyncRemoved => StrictlyIncreasing(ItemsOf(events))

\* C1 witness: a re-sync over two pages has emitted 102 torrents, a torrent
\* was added, and a poll tick has emitted it as the 103rd.
C1_Witness ==
    /\ ~resyncRemoved
    /\ Len(ItemsOf(events)) = 103
    /\ ticks >= 1
    /\ events[Len(events)] = ItemEvent(103)

\* C2: a stream opened with a LastTorrentID other than zero never emits,
\* without an error, a torrent whose ID is at or below that LastTorrentID.
C2_NoItemAtOrBelowStartCursor ==
    streamOptions.LastTorrentID # 0 =>
        \A k \in 1..Len(events) :
            events[k].err = NoErr => events[k].id > streamOptions.LastTorrentID

\* C2 witness: opened with LastTorrentID 1 over a listing whose newest
\* torrent is above 1, the first value received is a torrent.
C2_Witness ==
    /\ streamOptions.LastTorrentID = 1
    /\ events # <<>>
    /\ events[1].err = NoErr
    /\ events[1].id > 1

\* C3: a stream opened with an empty ImdbID never calls GetTorrents, emits
\* nothing but ErrMissingImdbID, emits it once, and the channel is closed
\* exactly when that one value has been received.
C3_MissingImdbIDOnly ==
    streamOptions.ImdbID = <<>> =>
        /\ fetchLog = <<>>
        /\ req = NoReq
        /\ events \in {<<>>, <<ErrEvent(ErrMissingImdbID)>>}
        /\ closed <=> (events # <<>>)

\* C3 witness: the stream with an empty ImdbID has delivered its error and
\* is closed.
C3_Witness ==
    /\ streamOptions.ImdbID = <<>>
    /\ events = <<ErrEvent(ErrMissingImdbID)>>
    /\ closed

\* C4 (as claimed): once ctx is cancelled no further value, torrent or
\* error, is received from the channel.
C4_NoEventAfterCancel == [][cancelled => events' = events]_vars

\* C5 (as claimed): once ctx is cancelled the goroutine eventually returns
\* and closes the channel.
C5_CancelLeadsToClose == cancelled ~> closed

\* C6: when ctx is cancelled while the goroutine is parked in the select of
\* the poll loop, no further call of GetTorrents is made, no further value
\* is emitted, and the only step the goroutine takes is the return that
\* closes the channel.
C6_CancelInTimerWait ==
    [][woken = "done" =>
          /\ events' = events
          /\ fetchLog' = fetchLog
          /\ sending' = NoEvent
          /\ pc' # pc => (pc' = "done" /\ closed')]_vars

\* C6 witness: the goroutine was cancelled in the select after a poll tick
\* and has returned.
C6_Witness ==
    /\ woken = "done"
    /\ ticks >= 1
    /\ pc = "done"
    /\ closed

\* C7: a failed fetch of a poll tick sends exactly one error, after which
\* the goroutine is back at the select with the channel open and
\* lastTorrentID unchanged; and whatever failed before, a tick whose page
\* has a newest torrent above lastTorrentID sends that torrent.
C7_PollErrorNotFatal ==
    [][/\ (pc = "poll_check" /\ pc' # pc /\ err # NoErr) =>
              /\ pc' = "send_poll_err"
              /\ sending' = ErrEvent(err)
              /\ events' = events
              /\ ~closed'
       /\ (pc = "send_poll_err" /\ pc' # pc) =>
              /\ events' = Append(events, ErrEvent(ErrFetch))
              /\ pc' = "select"
              /\ lastTorrentID' = lastTorrentID
              /\ ~closed'
       /\ (/\ pc = "poll_check" /\ pc' # pc /\ err = NoErr
           /\ page.torrents # <<>>
           /\ page.torrents[1] > lastTorrentID) =>
              /\ pc' = "send_poll_item"
              /\ sending' = ItemEvent(page.torrents[1])
       /\ (pc = "send_poll_item" /\ pc' # pc) =>
              /\ events' = Append(events, sending)
              /\ pc' = "select"]_vars

\* C7 witness: a stream that skipped the re-sync received the error of a
\* failed tick and, from a later tick, a torrent; ctx is not cancelled.
C7_Witness ==
    /\ streamOptions.LastTorrentID # 0
    /\ ~cancelled
    /\ ~closed
    /\ Len(events) >= 2
    /\ events[1].err = ErrFetch
    /\ events[Len(events)].err = NoErr

\* C8: a poll tick whose fetch succeeds with an empty page, or with a newest
\* torrent whose ID is at or below lastTorrentID, emits nothing: the
\* goroutine goes back to the select with nothing to send.
C8_NoEventWithoutNewTorrent ==
    [][(/\ pc = "poll_check" /\ pc' # pc /\ err = NoErr
        /\ \/ page.torrents = <<>>
           \/ page.torrents[1] <= lastTorrentID) =>
          /\ pc' = "select"
          /\ sending' = NoEvent
          /\ events' = events
          /\ lastTorrentID' = lastTorrentID]_vars

\* C8 witness: opened with LastTorrentID 1 over a listing whose newest
\* torrent is 1, a tick whose fetch succeeded has ended without an event.
C8_Witness ==
    /\ streamOptions.LastTorrentID = 1
    /\ upstream = <<1>>
    /\ adds = 0 /\ removes = 0 /\ failures = 0
    /\ ~cancelled
    /\ ticks = 1
    /\ pc = "select"
    /\ events = <<>>

\* The number of pages of count torrents, as the least p with
\* count <= p * MaxEZTVAPILimit.
PagesFor(count) ==
    CHOOSE p \in 0..count :
        /\ count <= p * MaxEZTVAPILimit
        /\ \A q \in 0..(p - 1) : count > q * MaxEZTVAPILimit

\* The re-sync of the stream is over and no fetch of it failed.
ResyncCompleted ==
    /\ pc \in {"select", "wait"}
    /\ ticks = 0
    /\ \A k \in 1..Len(events) : events[k].err = NoErr

\* C9: over a listing of T > 0 torrents that does not change, a re-sync
\* without a failed fetch has called GetTorrents for (1, 1) and then for the
\* pages ceil(T/100), ..., 2, 1, each once with limit 100, and has emitted
\* the T torrents in increasing order of ID, leaving lastTorrentID at T.
C9_ResyncPagesAndOrder ==
    ResyncCompleted =>
        LET T == Len(upstream)
            P == PagesFor(T)
        IN  /\ fetchLog = <<<<1, 1>>>> \o
                          [k \in 1..P |-> <<P + 1 - k, MaxEZTVAPILimit>>]
            /\ events = [k \in 1..T |-> ItemEvent(k)]
            /\ lastTorrentID = T

\* C9 witness: the re-sync of 250 torrents is over: pages 3, 2, 1 were
\* fetched and 250 torrents emitted.
C9_Witness ==
    /\ ResyncCompleted
    /\ Len(upstream) = 250
    /\ fetchLog = <<<<1, 1>>, <<3, 100>>, <<2, 100>>, <<1, 100>>>>
    /\ Len(events) = 250

\* C10: when the first call of the re-sync reports a count of zero, the
\* re-sync emits nothing and fetches no page: the goroutine goes to the
\* select of the poll loop with lastTorrentID 0.
C10_EmptyResync ==
    [][(pc = "probe_check" /\ pc' # pc /\ err = NoErr /\ page.count = 0) =>
          /\ pc' = "select"
          /\ lastTorrentID' = 0
          /\ sending' = NoEvent
          /\ events' = <<>>
          /\ fetchLog' = <<<<1, 1>>>>
          /\ req' = NoReq]_vars

\* C10 witness: over an empty listing the re-sync is over after its first
\* call, with nothing emitted, and the goroutine is parked in the select.
C10_Witness ==
    /\ streamOptions.LastTorrentID = 0
    /\ upstream = <<>>
    /\ failures = 0
    /\ ~cancelled
    /\ pc = "wait"
    /\ ticks = 0
    /\ lastTorrentID = 0
    /\ events = <<>>
    /\ fetchLog = <<<<1, 1>>>>

\* C11 (as claimed): the channel is closed only when ctx has been cancelled
\* or the ImdbID of the stream options was empty.
C11_ClosedOnlyByCancelOrEmptyImdbID ==
    closed => (cancelled \/ streamOptions.ImdbID = <<>>)

\* C11 (amended): the channel is closed only when ctx has been cancelled or
\* the ImdbID is empty once its prefix "tt" is trimmed, that is, the ImdbID
\* was "" or "tt"; no failed fetch, empty page, zero count or aborted
\* re-sync closes it.
C11_ClosedOnlyByCancelOrMissingImdbID ==
    closed => (cancelled \/ streamOptions.ImdbID \in {<<>>, <<"t", "t">>})

\* C11 witness: a re-sync was aborted by a failed fetch and a poll tick
\* failed too, and the goroutine is parked in the select with the channel
\* open.
C11_Witness ==
    /\ streamOptions.LastTorrentID = 0
    /\ ~cancelled
    /\ ~closed
    /\ failures = 2
    /\ Len(events) = 2
    /\ events[1].err = ErrFetch
    /\ events[2].err = ErrFetch
    /\ ticks = 2
    /\ pc = "wait"

\* C12 (as claimed): no step lowers the cursor, neither lastTorrentID of
\* TorrentStream nor the lastTorrentID that fullStreamResync keeps.
C12_CursorNeverDecreases ==
    [][lastTorrentID' >= lastTorrentID /\ resyncLast' >= resyncLast]_vars

\* C12 (amended): no step lowers lastTorrentID of TorrentStream, and no step
\* lowers the lastTorrentID of fullStreamResync as long as no torrent is
\* removed from the listing while the full re-sync is running.
C12_CursorNeverDecreasesUnlessRemoved ==
    [][/\ lastTorrentID' >= lastTorrentID
       /\ ~resyncRemoved' => resyncLast' >= resyncLast]_vars

\* C12 witness: the cursor was moved to 102 by a re-sync over two pages and
\* then to 103 by a poll tick.
C12_Witness ==
    /\ ~resyncRemoved
    /\ resyncLast = 102
    /\ lastTorrentID = 103

\* The positions of the goroutine inside fullStreamResync.
ResyncPCs ==
    {"probe_fetch", "probe_check", "send_probe_err", "resync_loop",
     "resync_fetch", "resync_check", "send_resync_err", "send_resync_item"}

\* The positions of the goroutine inside the poll loop.
PollPCs ==
    {"select", "wait", "poll_fetch", "poll_check", "send_poll_err",
     "send_poll_item"}

\* C13: when the first call of the re-sync (page 1, limit 1) fails, exactly
\* one error is emitted, it is the only event so far, no page of the
\* re-sync is fetched, and the goroutine enters the poll loop with
\* lastTorrentID 0; from the poll loop it never goes back into the re-sync.
C13_ProbeFailureAbortsResync ==
    [][/\ (pc = "probe_check" /\ pc' # pc /\ err # NoErr) =>
              /\ pc' = "send_probe_err"
              /\ sending' = ErrEvent(err)
              /\ events' = <<>>
              /\ fetchLog' = <<<<1, 1>>>>
       /\ (pc = "send_probe_err" /\ pc' # pc) =>
              /\ events' = <<ErrEvent(ErrFetch)>>
              /\ fetchLog' = <<<<1, 1>>>>
              /\ req' = NoReq
              /\ lastTorrentID' = 0
              /\ pc' = "select"
       /\ pc \in PollPCs => pc' \notin ResyncPCs]_vars

\* C13 witness: the first call failed, its error is the only event, and the
\* goroutine is parked in the select with lastTorrentID 0.
C13_Witness ==
    /\ streamOptions.LastTorrentID = 0
    /\ ~cancelled
    /\ events = <<ErrEvent(ErrFetch)>>
    /\ fetchLog = <<<<1, 1>>>>
    /\ lastTorrentID = 0
    /\ pc = "wait"

\* The ID of the last torrent emitted without an error, 0 if there is none.
LastItemID(evs) ==
    IF ItemsOf(evs) = <<>> THEN 0 ELSE ItemsOf(evs)[Len(ItemsOf(evs))].id

\* C14: when a page fetch of the re-sync fails, exactly one error is
\* emitted, no further call is made by the re-sync, and the goroutine
\* enters the poll loop with lastTorrentID equal to the ID of the last
\* torrent the re-sync emitted (0 if none); from the poll loop it never goes
\* back into the re-sync, and a torrent the poll loop emits has an ID
\* above that of the last torrent emitted before it.
C14_PartialResyncKeepsCursor ==
    [][/\ (pc = "resync_check" /\ pc' # pc /\ err # NoErr) =>
              /\ pc' = "send_resync_err"
              /\ sending' = ErrEvent(err)
              /\ events' = events
              /\ fetchLog' = fetchLog
       /\ (pc = "send_resync_err" /\ pc' # pc) =>
              /\ events' = Append(events, ErrEvent(ErrFetch))
              /\ fetchLog' = fetchLog
              /\ req' = NoReq
              /\ lastTorrentID' = LastItemID(events)
              /\ pc' = "select"
       /\ pc \in PollPCs => pc' \notin ResyncPCs
       /\ (pc = "send_poll_item" /\ pc' # pc) =>
              sending.id > LastItemID(events)]_vars

\* C14 witness: over 102 torrents the re-sync emitted page 2 (torrents 1
\* and 2), the fetch of page 1 failed, and the goroutine is in the poll loop
\* with lastTorrentID 2.
C14_Witness ==
    /\ events = <<ItemEvent(1), ItemEvent(2), ErrEvent(ErrFetch)>>
    /\ fetchLog = <<<<1, 1>>, <<2, 100>>, <<1, 100>>>>
    /\ lastTorrentID = 2
    /\ ~cancelled
    /\ pc = "wait"

\* C15: a poll tick whose page has a newest torrent above lastTorrentID
\* moves lastTorrentID to that torrent and sends that torrent alone, however
\* many torrents were added since the last tick; in the poll loop the only
\* torrent ever delivered is the one lastTorrentID stands at, and
\* lastTorrentID never goes down, so a torrent that was skipped is never
\* emitted on a later tick.
C15_OnlyNewestPerTick ==
    [][/\ (/\ pc = "poll_check" /\ pc' # pc /\ err = NoErr
           /\ page.torrents # <<>>
           /\ page.torrents[1] > lastTorrentID) =>
              /\ lastTorrentID' = page.torrents[1]
              /\ sending' = ItemEvent(page.torrents[1])
              /\ events' = events
              /\ pc' = "send_poll_item"
       /\ (pc = "send_poll_item" /\ pc' # pc) =>
              /\ events' = Append(events, ItemEvent(lastTorrentID))
              /\ lastTorrentID' = lastTorrentID
              /\ pc' = "select"
       /\ pc \in PollPCs => lastTorrentID' >= lastTorrentID]_vars

\* C15 witness: opened with LastTorrentID 1 over the listing <<1>>; torrents
\* 2 and 3 were added before the first tick read the listing; the first
\* tick emitted 3 and the second tick has ended without emitting 2.
C15_Witness ==
    /\ streamOptions.LastTorrentID = 1
    /\ upstream = <<3, 2, 1>>
    /\ events = <<ItemEvent(3)>>
    /\ failures = 0
    /\ ~cancelled
    /\ ticks = 2
    /\ pc = "select"

\* C16: a stream opened with a LastTorrentID other than zero never enters
\* fullStreamResync; every call of GetTorrents it makes is (page 1, limit 1),
\* there are no more calls than poll timers that fired, and until it sends
\* a torrent its lastTorrentID is the LastTorrentID it was opened with.
C16_NonZeroCursorSkipsResync ==
    streamOptions.LastTorrentID # 0 =>
        /\ pc \notin ResyncPCs
        /\ Len(fetchLog) <= ticks
        /\ \A k \in 1..Len(fetchLog) : fetchLog[k] = <<1, 1>>
        /\ (pc # "start" /\ ItemsOf(events) = <<>> /\ sending.err # NoErr) =>
               lastTorrentID = streamOptions.LastTorrentID

\* C16 witness: opened with LastTorrentID 1, the stream made its first call
\* after the first timer and emitted the torrent it found.
C16_Witness ==
    /\ streamOptions.LastTorrentID = 1
    /\ ticks = 1
    /\ fetchLog = <<<<1, 1>>>>
    /\ Len(events) = 1
    /\ events[1].err = NoErr

\* The positions in which the goroutine is blocked in a send on torrentsCh.
SendPCs ==
    {"send_missing", "send_probe_err", "send_resync_err", "send_resync_item",
     "send_poll_err", "send_poll_item"}

\* C17: torrentsCh has no buffer.  While a value waits to be received the
\* goroutine is blocked in its send, with no call of GetTorrents in flight
\* and no select pending; as long as the value is not received the
\* goroutine does not move, makes no call and starts no timer; and nothing
\* is handed over while the consumer does not receive.
C17_Backpressure ==
    /\ [](sending # NoEvent =>
              /\ pc \in SendPCs
              /\ req = NoReq
              /\ woken = "none")
    /\ [][/\ (sending # NoEvent /\ events' = events) =>
                 /\ pc' = pc
                 /\ sending' = sending
                 /\ req' = req
                 /\ fetchLog' = fetchLog
                 /\ ticks' = ticks
          /\ consumerStopped => events' = events
          /\ Len(events') <= Len(events) + 1]_vars

\* C17 witness: the consumer stopped after the first torrent of a re-sync
\* over two pages; the goroutine is blocked sending the second torrent and
\* the second page has not been requested.
C17_Witness ==
    /\ consumerStopped
    /\ pc = "send_resync_item"
    /\ sending = ItemEvent(2)
    /\ events = <<ItemEvent(1)>>
    /\ fetchLog = <<<<1, 1>>, <<2, 100>>>>

\* C18: a stream that polls from the start has at most one event, received
\* or waiting, per timer that fired; in the poll loop lastTorrentID changes
\* only in the step that decides to send a torrent, and becomes the ID of
\* that torrent; a tick that sends an error or nothing leaves it unchanged.
C18_PollTickFrame ==
    /\ [](streamOptions.LastTorrentID # 0 /\ ~MissingImdbID(streamOptions) =>
              Len(events) + (IF sending # NoEvent THEN 1 ELSE 0) <= ticks)
    /\ [][/\ (pc \in PollPCs /\ lastTorrentID' # lastTorrentID) =>
                 /\ pc = "poll_check"
                 /\ pc' = "send_poll_item"
          /\ (pc = "poll_check" /\ pc' = "send_poll_item") =>
                 /\ sending' = ItemEvent(page.torrents[1])
                 /\ lastTorrentID' = page.torrents[1]
          /\ (pc = "poll_check" /\ pc' \in {"select", "send_poll_err"}) =>
                 lastTorrentID' = lastTorrentID]_vars

\* C18 witness: opened with LastTorrentID 1, the first tick emitted torrent
\* 2 and the second tick failed: its error was emitted and lastTorrentID is
\* still 2.
C18_Witness ==
    /\ streamOptions.LastTorrentID = 1
    /\ events = <<ItemEvent(2), ErrEvent(ErrFetch)>>
    /\ lastTorrentID = 2
    /\ ticks = 2
    /\ ~cancelled
    /\ pc = "wait"

\* C19: when a re-sync ends without a failed fetch over a listing that did
\* not change, it has emitted the torrents of the listing oldest first and
\* lastTorrentID is the ID of the newest of them; and, unless a torrent was
\* removed during the re-sync, a torrent the poll loop delivers has an ID
\* above that of every torrent delivered before it.
C19_PollAfterResync ==
    /\ []((/\ streamOptions.LastTorrentID = 0
           /\ ResyncCompleted
           /\ adds = 0
           /\ removes = 0) =>
              /\ events = [k \in 1..Len(upstream) |-> ItemEvent(k)]
              /\ lastTorrentID = Len(upstream))
    /\ [][(pc = "send_poll_item" /\ pc' # pc /\ ~resyncRemoved) =>
              \A k \in 1..Len(events) :
                  events[k].err = NoErr => events[k].id < sending.id]_vars

\* C19 witness: the re-sync of two torrents emitted 1 and 2; torrent 3 was
\* added afterwards and a poll tick emitted it.
C19_Witness ==
    /\ streamOptions.LastTorrentID = 0
    /\ resyncLast = 2
    /\ events = <<ItemEvent(1), ItemEvent(2), ItemEvent(3)>>
    /\ lastTorrentID = 3
    /\ ticks >= 1
    /\ removes = 0

\* C20: once ctx is cancelled the channel is eventually closed, unless the
\* consumer has stopped receiving.
C20_CancelLeadsToCloseIfConsumed == cancelled ~> (closed \/ consumerStopped)

\* C20 witness: ctx was cancelled during a re-sync whose consumer kept
\* receiving: the failed call was reported and the channel is closed.
C20_Witness ==
    /\ streamOptions.LastTorrentID = 0
    /\ cancelled
    /\ ~consumerStopped
    /\ closed
    /\ ticks = 0
    /\ failures = 0
    /\ events # <<>>
    /\ events[Len(events)].err = ErrFetch

====
